---- MODULE Spec2Model ----
(***************************************************************************)
(* A model of src/src/main.rs: the one-billion-row aggregation pipeline.   *)
(* Bytes are their ASCII codes, byte slices are sequences of bytes, hash   *)
(* tables are functions from station names (byte sequences) to Stat        *)
(* records.  Offsets are 0-based as in the source; Slice(d, a, b) is the   *)
(* Rust slice d[a..b].                                                     *)
(***************************************************************************)
EXTENDS Integers, Sequences, FiniteSets, TLC

VARIABLES
    buf,      \* the mapped file contents (main.rs:20), read-only
    parts,    \* cores (main.rs:26)
    pc,       \* position of main: chunk, par, merge, sorted, print, done, failed
    rest,     \* chunk_data's shrinking `data` (main.rs:50)
    chunks,   \* chunk_data's `chunks` vector (main.rs:48)
    workers,  \* one record per chunk: the state of its process_chunk call
    results,  \* the collected Vec of (total, table) (main.rs:29-36)
    todo,     \* what is left of the flat_map iterator over results (main.rs:41)
    merged,   \* merge_and_sort's `merged` HashMap (main.rs:91)
    sorted,   \* merged_and_sorted: the BTreeMap's items in order (main.rs:98)
    stdout,   \* the bytes written to standard output
    stderr,   \* the diagnostics written to standard error, in order
    num,      \* the argument of a stand-alone parse_number call
    parsed    \* its result

vars == <<buf, parts, pc, rest, chunks, workers, results, todo, merged, sorted,
          stdout, stderr, num, parsed>>

----------------------------------------------------------------------------
(* Bounds of the model *)

MaxRecords == 3   \* records (terminated or not) in an input buffer
MaxParts == 3     \* largest number of cores
MaxBufLen == 6    \* longest raw buffer handed to chunk_data alone
MaxNumLen == 5    \* longest byte string handed to parse_number alone
MaxTables == 3    \* partial tables handed to merge_and_sort alone

(* Byte constants of the source *)

NL == 10      \* b'\n'
SEMI == 59    \* b';'
MINUS == 45   \* b'-'
DOT == 46     \* b'.'
ZERO == 48    \* b'0'
NINE == 57    \* b'9'

----------------------------------------------------------------------------
(* Slices and memchr *)

Slice(d, a, b) == SubSeq(d, a + 1, b)

SliceFrom(d, a) == SubSeq(d, a + 1, Len(d))

\* memchr::memchr: the 0-based offset of the first occurrence, -1 for None
memchr(needle, d) ==
    IF \E i \in 1..Len(d) : d[i] = needle
    THEN (CHOOSE i \in 1..Len(d) : d[i] = needle /\ \A j \in 1..(i - 1) : d[j] # needle) - 1
    ELSE -1

----------------------------------------------------------------------------
(* parse_number *)

IsDigit(b) == b >= ZERO /\ b <= NINE

parse_number(data) ==
    LET negative == Len(data) > 0 /\ data[1] = MINUS
        neg == IF negative THEN 1 ELSE 0
        body == SliceFrom(data, neg)
        sign == neg * 2 - 1
    IN  IF Len(body) = 3 /\ IsDigit(body[1]) /\ body[2] = DOT /\ IsDigit(body[3])
        THEN [ok |-> TRUE,
              val |-> ((body[1] - ZERO) * 10 + (body[3] - ZERO)) * sign]
        ELSE IF Len(body) = 4 /\ IsDigit(body[1]) /\ IsDigit(body[2])
                /\ body[3] = DOT /\ IsDigit(body[4])
        THEN [ok |-> TRUE,
              val |-> ((body[1] - ZERO) * 100 + (body[2] - ZERO) * 10
                        + (body[4] - ZERO)) * sign]
        ELSE [ok |-> FALSE, val |-> 0]

----------------------------------------------------------------------------
(* Stat *)

Min(a, b) == IF a <= b THEN a ELSE b

Max(a, b) == IF a >= b THEN a ELSE b

StatNewZeroMin(n) == [min |-> 0, max |-> n, total |-> n, count |-> 1]

StatNew(n) == [min |-> n, max |-> n, total |-> n, count |-> 1]

StatUpdate(s, n) ==
    [min |-> Min(s.min, n), max |-> Max(s.max, n),
     total |-> s.total + n, count |-> s.count + 1]

StatMergeKeepsOtherMin(s, other) ==
    [min |-> other.min, max |-> Max(s.max, other.max),
     total |-> s.total + other.total, count |-> s.count + other.count]

StatMerge(s, other) ==
    [min |-> Min(s.min, other.min), max |-> Max(s.max, other.max),
     total |-> s.total + other.total, count |-> s.count + other.count]

----------------------------------------------------------------------------
(* Hash tables *)

EmptyTable == [k \in {} |-> StatNew(0)]

Put(t, k, v) == [x \in (DOMAIN t) \cup {k} |-> IF x = k THEN v ELSE t[x]]

Remove(t, k) == [x \in (DOMAIN t) \ {k} |-> t[x]]

----------------------------------------------------------------------------
(* chunk_data *)

\* let jump = data.len() / parts
Jump(data, n) == Len(data) \div n

\* the loop condition of chunk_data: fewer than parts - 1 chunks so far, more
\* than jump bytes left, and a needle at or after offset jump
CanCut(cs, d, jump, n, needle) ==
    /\ Len(cs) < n - 1
    /\ Len(d) > jump
    /\ memchr(needle, SliceFrom(d, jump)) # -1

CutPointBeforeNeedle(d, jump, needle) == jump + memchr(needle, SliceFrom(d, jump))

\* the argument of split_at: one past the needle found at or after jump
CutPoint(d, jump, needle) == jump + memchr(needle, SliceFrom(d, jump)) + 1

RECURSIVE ChunkLoop(_, _, _, _, _)
ChunkLoop(cs, d, jump, n, needle) ==
    IF CanCut(cs, d, jump, n, needle)
    THEN LET at == CutPoint(d, jump, needle)
         IN  ChunkLoop(Append(cs, Slice(d, 0, at)), SliceFrom(d, at), jump, n, needle)
    ELSE Append(cs, d)

chunk_data(data, n, needle) == ChunkLoop(<<>>, data, Jump(data, n), n, needle)

----------------------------------------------------------------------------
(* process_chunk: the state of one call is its remaining data, its table,   *)
(* its line count and where it stands (run, ok, err); obs is a history of   *)
(* the (station, value) pairs it folded into its table.                     *)

NewCall(data) ==
    [data |-> data, tab |-> EmptyTable, total |-> 0, status |-> "idle", obs |-> {}]

\* results.get_mut(before): update the entry, or insert a new one
Fold(tab, before, n) ==
    IF before \in DOMAIN tab
    THEN [tab EXCEPT ![before] = StatUpdate(@, n)]
    ELSE Put(tab, before, StatNew(n))

\* one iteration of the while-let loop, or the return once memchr finds no '\n'
LineStep(st) ==
    LET idx == memchr(NL, st.data)
    IN  IF idx = -1 THEN [st EXCEPT !.status = "ok"]
        ELSE LET line == Slice(st.data, 0, idx)
                 next == SliceFrom(st.data, idx + 1)
             IN  IF line = <<>>
                 THEN [st EXCEPT !.data = next, !.status = "ok"]
                 ELSE LET semi == memchr(SEMI, line)
                          before == Slice(line, 0, semi)
                          after == SliceFrom(line, semi + 1)
                          n == parse_number(after)
                      IN  IF semi = -1 \/ ~n.ok
                          THEN [st EXCEPT !.data = next, !.total = @ + 1,
                                          !.status = "err"]
                          ELSE [st EXCEPT !.data = next, !.total = @ + 1,
                                          !.tab = Fold(@, before, n.val),
                                          !.obs = @ \cup {<<before, n.val>>}]

RECURSIVE RunCall(_)
RunCall(st) == IF st.status # "run" THEN st ELSE RunCall(LineStep(st))

process_chunk(data) == RunCall([NewCall(data) EXCEPT !.status = "run"])

----------------------------------------------------------------------------
(* merge_and_sort *)

\* merged.entry(key).and_modify(|v| v.merge(&value)).or_insert(value)
MergeEntry(m, key, value) ==
    IF key \in DOMAIN m
    THEN [m EXCEPT ![key] = StatMerge(@, value)]
    ELSE Put(m, key, value)

\* the order of &[u8]: byte-lexicographic, a proper prefix first
RECURSIVE LexLess(_, _)
LexLess(a, b) ==
    IF b = <<>> THEN FALSE
    ELSE IF a = <<>> THEN TRUE
    ELSE IF Head(a) # Head(b) THEN Head(a) < Head(b)
    ELSE LexLess(Tail(a), Tail(b))

ShortLexLess(a, b) == Len(a) < Len(b) \/ (Len(a) = Len(b) /\ LexLess(a, b))

KeyLess(a, b) == LexLess(a, b)

RECURSIVE BTreeItemsShortLex(_)
BTreeItemsShortLex(m) ==
    IF DOMAIN m = {} THEN <<>>
    ELSE LET k == CHOOSE k \in DOMAIN m : \A j \in DOMAIN m : j = k \/ ShortLexLess(k, j)
         IN  <<(<<k, m[k]>>)>> \o BTreeItemsShortLex(Remove(m, k))

\* BTreeMap::from_iter(merged).into_iter(): the items in the order of their keys
RECURSIVE BTreeItems(_)
BTreeItems(m) ==
    IF DOMAIN m = {} THEN <<>>
    ELSE LET k == CHOOSE k \in DOMAIN m : \A j \in DOMAIN m : j = k \/ KeyLess(k, j)
         IN  <<(<<k, m[k]>>)>> \o BTreeItems(Remove(m, k))

\* the fold of merge_and_sort over one table's items, then over a sequence of tables
RECURSIVE MergeTable(_, _)
MergeTable(m, t) ==
    IF DOMAIN t = {} THEN m
    ELSE LET k == CHOOSE k \in DOMAIN t : TRUE
         IN  MergeTable(MergeEntry(m, k, t[k]), Remove(t, k))

RECURSIVE MergeTables(_, _)
MergeTables(m, ts) ==
    IF ts = <<>> THEN m ELSE MergeTables(MergeTable(m, Head(ts)), Tail(ts))

merge_and_sort(ts) == BTreeItems(MergeTables(EmptyTable, ts))

----------------------------------------------------------------------------
(* Display for Stat, and print *)

Abs(x) == IF x < 0 THEN -x ELSE x

\* the decimal digits of a natural number, as Display for usize writes them
RECURSIVE Decimal(_)
Decimal(n) == IF n < 10 THEN <<ZERO + n>> ELSE Decimal(n \div 10) \o <<ZERO + (n % 10)>>

\* (total as f32 / count as f32).round(): to the nearest integer, a half away from zero
RoundDiv(total, count) ==
    LET q == (2 * Abs(total) + count) \div (2 * count)
    IN  IF total < 0 THEN -q ELSE q

\* "{:.1}" of tenths / 10: a sign for a negative value, the integer part, '.', one digit
FmtTenths(t) ==
    (IF t < 0 THEN <<MINUS>> ELSE <<>>) \o Decimal(Abs(t) \div 10) \o <<DOT, ZERO + (Abs(t) % 10)>>

\* "{:.1}/{:.1}/{:.1}" of min, avg and max; an avg of -0. is written as 0.
Display(s) ==
    FmtTenths(s.min) \o <<47>> \o FmtTenths(RoundDiv(s.total, s.count)) \o <<47>> \o FmtTenths(s.max)

\* the loop of print: station, '=', the stat, and ", " when another item follows
RECURSIVE PrintItems(_)
PrintItems(items) ==
    IF items = <<>> THEN <<>>
    ELSE Head(items)[1] \o <<61>> \o Display(Head(items)[2])
         \o (IF Tail(items) # <<>> THEN <<44, 32>> ELSE <<>>)
         \o PrintItems(Tail(items))

\* what print writes: '{', the items, "}\n"
PrintBytes(items) == <<123>> \o PrintItems(items) \o <<125, NL>>

\* println!("Num stations: {}", n)
NumStationsLine(n) ==
    <<78, 117, 109, 32, 115, 116, 97, 116, 105, 111, 110, 115, 58, 32>> \o Decimal(n) \o <<NL>>

----------------------------------------------------------------------------
(* Inputs *)

\* a;1.0  a;12.3  b;-2.5  (empty)  a1.0 (no ';')  b;1.23 (two fractional digits)
Fragments ==
    { <<97, 59, 49, 46, 48>>, <<97, 59, 49, 50, 46, 51>>, <<98, 59, 45, 50, 46, 53>>,
      <<>>, <<97, 49, 46, 48>>, <<98, 59, 49, 46, 50, 51>> }

\* the buffers of exactly n records, each followed by '\n'
RECURSIVE Terminated(_)
Terminated(n) ==
    IF n = 0 THEN {<<>>}
    ELSE {f \o <<NL>> \o b : f \in Fragments, b \in Terminated(n - 1)}

\* up to MaxRecords records; the last one may lack its '\n'
Buffers ==
    UNION {Terminated(n) : n \in 0..MaxRecords}
    \cup UNION {{b \o f : b \in Terminated(n), f \in Fragments} : n \in 0..(MaxRecords - 1)}

\* every byte string of at most MaxBufLen bytes over '\n' and 'a'
RawBuffers == UNION {[1..n -> {NL, 97}] : n \in 0..MaxBufLen}

\* every byte string of at most MaxNumLen bytes over '+' '-' '.' '0' '1' '9' 'a'
NumberStrings == UNION {[1..n -> {43, MINUS, DOT, ZERO, 49, NINE, 97}] : n \in 0..MaxNumLen}

\* the tables of stations "ab" and "b" a process_chunk call can return
StatChoices == {StatNew(10), StatUpdate(StatNew(-25), 123)}

TableChoices ==
    UNION {[ks -> StatChoices] : ks \in SUBSET {<<97, 98>>, <<98>>}}

TableSeqs == UNION {[1..n -> TableChoices] : n \in 0..MaxTables}

----------------------------------------------------------------------------
(* main: the state after the file is mapped and the cores are counted *)

Init ==
    /\ buf \in Buffers
    /\ parts \in 1..MaxParts
    /\ pc = "chunk"
    /\ rest = buf
    /\ chunks = <<>> /\ workers = <<>> /\ results = <<>>
    /\ todo = <<>> /\ merged = EmptyTable /\ sorted = <<>>
    /\ stdout = <<>>
    /\ stderr = << <<"Using cores", parts>> >>
    /\ num = <<>> /\ parsed = [ok |-> FALSE, val |-> 0]

\* one iteration of chunk_data's loop
ChunkStep ==
    /\ pc = "chunk"
    /\ CanCut(chunks, rest, Jump(buf, parts), parts, NL)
    /\ LET at == CutPoint(rest, Jump(buf, parts), NL)
       IN  /\ chunks' = Append(chunks, Slice(rest, 0, at))
           /\ rest' = SliceFrom(rest, at)
    /\ UNCHANGED <<buf, parts, pc, workers, results, todo, merged, sorted,
                   stdout, stderr, num, parsed>>

\* the loop ends: the rest is the last chunk, and one task per chunk is handed
\* to the thread pool
ChunkFinish ==
    /\ pc = "chunk"
    /\ ~CanCut(chunks, rest, Jump(buf, parts), parts, NL)
    /\ chunks' = Append(chunks, rest)
    /\ workers' = [i \in 1..(Len(chunks) + 1) |-> NewCall(Append(chunks, rest)[i])]
    /\ pc' = "par"
    /\ UNCHANGED <<buf, parts, rest, results, todo, merged, sorted,
                   stdout, stderr, num, parsed>>

\* a pool thread takes chunk w: the closure's eprintln, then process_chunk's entry
WorkerStart(w) ==
    /\ pc = "par"
    /\ workers[w].status = "idle"
    /\ workers' = [workers EXCEPT ![w].status = "run"]
    /\ stderr' = Append(stderr, <<"Processing chunk bytes", Len(chunks[w])>>)
    /\ UNCHANGED <<buf, parts, pc, rest, chunks, results, todo, merged, sorted,
                   stdout, num, parsed>>

\* collect::<Result<_>> stops taking new items once some item is an Err
WorkerSkip(w) ==
    /\ pc = "par"
    /\ workers[w].status = "idle"
    /\ \E v \in DOMAIN workers : workers[v].status = "err"
    /\ workers' = [workers EXCEPT ![w].status = "skip"]
    /\ UNCHANGED <<buf, parts, pc, rest, chunks, results, todo, merged, sorted,
                   stdout, stderr, num, parsed>>

\* one line of chunk w
WorkerStep(w) ==
    /\ pc = "par"
    /\ workers[w].status = "run"
    /\ workers' = [workers EXCEPT ![w] = LineStep(@)]
    /\ UNCHANGED <<buf, parts, pc, rest, chunks, results, todo, merged, sorted,
                   stdout, stderr, num, parsed>>

JoinedAny(ws) == \E w \in DOMAIN ws : ws[w].status \in {"ok", "err", "skip"}

\* the parallel iterator has returned: no task is waiting or running
Joined(ws) == \A w \in DOMAIN ws : ws[w].status \in {"ok", "err", "skip"}

RECURSIVE SumTotals(_)
SumTotals(rs) == IF rs = <<>> THEN 0 ELSE Head(rs).total + SumTotals(Tail(rs))

\* an Err was collected: main returns it, nothing more is written to stdout
CollectErr ==
    /\ pc = "par"
    /\ Joined(workers)
    /\ \E w \in DOMAIN workers : workers[w].status = "err"
    /\ pc' = "failed"
    /\ stderr' = Append(stderr, <<"Error: One or more chunks could not be processed", 1>>)
    /\ UNCHANGED <<buf, parts, rest, chunks, workers, results, todo, merged, sorted,
                   stdout, num, parsed>>

\* every item is Ok: the totals are summed and reported, the tables are chained
CollectOk ==
    /\ pc = "par"
    /\ Joined(workers)
    /\ \A w \in DOMAIN workers : workers[w].status # "err"
    /\ LET rs == [i \in DOMAIN workers |-> [total |-> workers[i].total, tab |-> workers[i].tab]]
       IN  /\ results' = rs
           /\ todo' = [i \in DOMAIN rs |-> rs[i].tab]
           /\ stderr' = Append(stderr, <<"Total lines processed", SumTotals(rs)>>)
    /\ merged' = EmptyTable
    /\ pc' = "merge"
    /\ UNCHANGED <<buf, parts, rest, chunks, workers, sorted, stdout, num, parsed>>

\* one item of the chained iterator: the tables in order, a table's items in the
\* order its hash map yields them
MergeStep ==
    /\ pc = "merge"
    /\ \E i \in DOMAIN todo :
          /\ DOMAIN todo[i] # {}
          /\ \A j \in 1..(i - 1) : DOMAIN todo[j] = {}
          /\ \E k \in DOMAIN todo[i] :
                /\ merged' = MergeEntry(merged, k, todo[i][k])
                /\ todo' = [todo EXCEPT ![i] = Remove(@, k)]
    /\ UNCHANGED <<buf, parts, pc, rest, chunks, workers, results, sorted,
                   stdout, stderr, num, parsed>>

\* the iterator is exhausted: the BTreeMap is built
MergeFinish ==
    /\ pc = "merge"
    /\ \A i \in DOMAIN todo : DOMAIN todo[i] = {}
    /\ sorted' = BTreeItems(merged)
    /\ pc' = "sorted"
    /\ UNCHANGED <<buf, parts, rest, chunks, workers, results, todo, merged,
                   stdout, stderr, num, parsed>>

\* println!("Num stations: {}", merged_and_sorted.len())
PrintNum ==
    /\ pc = "sorted"
    /\ stdout' = stdout \o NumStationsLine(Len(sorted))
    /\ pc' = "print"
    /\ UNCHANGED <<buf, parts, rest, chunks, workers, results, todo, merged, sorted,
                   stderr, num, parsed>>

\* print(merged_and_sorted), and main returns Ok
PrintReport ==
    /\ pc = "print"
    /\ stdout' = stdout \o PrintBytes(sorted)
    /\ pc' = "done"
    /\ UNCHANGED <<buf, parts, rest, chunks, workers, results, todo, merged, sorted,
                   stderr, num, parsed>>

Next ==
    \/ ChunkStep
    \/ ChunkFinish
    \/ \E w \in DOMAIN workers : WorkerStart(w)
    \/ \E w \in DOMAIN workers : WorkerSkip(w)
    \/ \E w \in DOMAIN workers : WorkerStep(w)
    \/ CollectErr
    \/ CollectOk
    \/ MergeStep
    \/ MergeFinish
    \/ PrintNum
    \/ PrintReport

Spec == Init /\ [][Next]_vars

----------------------------------------------------------------------------
(* chunk_data alone, on every byte string over '\n' and 'a' *)

InitChunk ==
    /\ buf \in RawBuffers
    /\ parts \in 1..MaxParts
    /\ pc = "chunk"
    /\ rest = buf
    /\ chunks = <<>> /\ workers = <<>> /\ results = <<>>
    /\ todo = <<>> /\ merged = EmptyTable /\ sorted = <<>>
    /\ stdout = <<>> /\ stderr = <<>>
    /\ num = <<>> /\ parsed = [ok |-> FALSE, val |-> 0]

NextChunk == ChunkStep \/ ChunkFinish

SpecChunk == InitChunk /\ [][NextChunk]_vars

(* merge_and_sort alone, on every sequence of tables *)

RECURSIVE SumCounts(_)
SumCounts(t) ==
    IF DOMAIN t = {} THEN 0
    ELSE LET k == CHOOSE k \in DOMAIN t : TRUE IN t[k].count + SumCounts(Remove(t, k))

InitMerge ==
    /\ \E ts \in TableSeqs :
          /\ results = [i \in DOMAIN ts |-> [total |-> SumCounts(ts[i]), tab |-> ts[i]]]
          /\ todo = ts
    /\ pc = "merge"
    /\ buf = <<>> /\ parts = 1 /\ rest = <<>> /\ chunks = <<>> /\ workers = <<>>
    /\ merged = EmptyTable /\ sorted = <<>>
    /\ stdout = <<>> /\ stderr = <<>>
    /\ num = <<>> /\ parsed = [ok |-> FALSE, val |-> 0]

NextMerge == MergeStep \/ MergeFinish

SpecMerge == InitMerge /\ [][NextMerge]_vars

(* parse_number alone, on every short byte string *)

InitParse ==
    /\ num \in NumberStrings
    /\ parsed = [ok |-> FALSE, val |-> 0]
    /\ pc = "parse"
    /\ buf = <<>> /\ parts = 1 /\ rest = <<>> /\ chunks = <<>> /\ workers = <<>>
    /\ results = <<>> /\ todo = <<>> /\ merged = EmptyTable /\ sorted = <<>>
    /\ stdout = <<>> /\ stderr = <<>>

ParseNumber ==
    /\ pc = "parse"
    /\ parsed' = parse_number(num)
    /\ pc' = "parsed"
    /\ UNCHANGED <<buf, parts, rest, chunks, workers, results, todo, merged, sorted,
                   stdout, stderr, num>>

NextParse == ParseNumber

SpecParse == InitParse /\ [][NextParse]_vars

----------------------------------------------------------------------------
(* Properties *)

RECURSIVE Concat(_)
Concat(ss) == IF ss = <<>> THEN <<>> ELSE Head(ss) \o Concat(Tail(ss))

\* the lines of a buffer: the pieces that a '\n' ends
RECURSIVE Lines(_)
Lines(d) ==
    IF memchr(NL, d) = -1 THEN <<>>
    ELSE <<Slice(d, 0, memchr(NL, d))>> \o Lines(SliceFrom(d, memchr(NL, d) + 1))

\* what follows the last '\n' of a buffer
RECURSIVE LastPiece(_)
LastPiece(d) == IF memchr(NL, d) = -1 THEN d ELSE LastPiece(SliceFrom(d, memchr(NL, d) + 1))

\* the records of a buffer: its lines, and its tail when that is not empty
Records(d) == Lines(d) \o (IF LastPiece(d) = <<>> THEN <<>> ELSE <<LastPiece(d)>>)

\* a non-empty record with no ';' or with a temperature the decoder rejects
Malformed(r) ==
    /\ r # <<>>
    /\ \/ memchr(SEMI, r) = -1
       \/ ~parse_number(SliceFrom(r, memchr(SEMI, r) + 1)).ok

Terminal == pc \in {"done", "failed"}

\* C1: parse_number returns what the specification's decoder returns on every
\* byte string: the tenths value of (-)d.d or (-)dd.d, negated exactly when the
\* leading '-' is present, and a failure on every other byte string.
C1_ParseNumberIsSpecDecoder ==
    LET negative == Len(num) > 0 /\ num[1] = MINUS
        body == SliceFrom(num, IF negative THEN 1 ELSE 0)
        well == /\ Len(body) \in {3, 4}
                /\ body[Len(body) - 1] = DOT
                /\ \A i \in (1..Len(body)) \ {Len(body) - 1} : IsDigit(body[i])
        mag == IF Len(body) = 3
               THEN (body[1] - ZERO) * 10 + (body[3] - ZERO)
               ELSE (body[1] - ZERO) * 100 + (body[2] - ZERO) * 10 + (body[4] - ZERO)
    IN  pc = "parsed" =>
            IF well
            THEN parsed = [ok |-> TRUE, val |-> IF negative THEN -mag ELSE mag]
            ELSE ~parsed.ok

\* C2: chunk_data returns between 1 and N ranges whose concatenation is the
\* buffer, and every range but the last ends right after a separator; while the
\* loop runs, the ranges cut so far and the rest make up the buffer.
C2_ChunksPartitionBuffer ==
    /\ pc = "chunk" => Concat(chunks) \o rest = buf /\ Len(chunks) <= parts - 1
    /\ pc = "par" =>
          /\ Len(chunks) >= 1 /\ Len(chunks) <= parts
          /\ Concat(chunks) = buf
          /\ \A i \in 1..(Len(chunks) - 1) :
                chunks[i] # <<>> /\ chunks[i][Len(chunks[i])] = NL

C2_Witness ==
    /\ pc = "par" /\ parts = 3 /\ Len(chunks) = 2
    /\ chunks[2] # <<>> /\ chunks[2][Len(chunks[2])] # NL

\* C3: the run's outcome on N parts is the outcome of chunk_data into one part,
\* process_chunk on it and merge_and_sort: the same table, or failure in both.
C3_SplitEqualsWhole ==
    LET whole == [i \in DOMAIN chunk_data(buf, 1, NL) |-> process_chunk(chunk_data(buf, 1, NL)[i])]
        one == IF \E i \in DOMAIN whole : whole[i].status = "err"
               THEN [ok |-> FALSE, items |-> <<>>]
               ELSE [ok |-> TRUE,
                     items |-> merge_and_sort([i \in DOMAIN whole |-> whole[i].tab])]
        run == IF pc = "failed"
               THEN [ok |-> FALSE, items |-> <<>>]
               ELSE [ok |-> TRUE, items |-> sorted]
    IN  Terminal => run = one

\* C4: a buffer with a malformed record, wherever it lies, makes the run fail
\* with nothing written to standard output.  Only records that a '\n' ends are
\* looked at here, so the statement does not rest on what an unterminated last
\* piece counts as.
C4_MalformedAlwaysFails ==
    (\E i \in DOMAIN Lines(buf) : Malformed(Lines(buf)[i])) =>
        /\ stdout = <<>>
        /\ pc # "done"
        /\ pc = "par" /\ Joined(workers) => \E w \in DOMAIN workers : workers[w].status = "err"

\* C5: on success, standard output holds exactly the one report line.
C5_StdoutIsOneReportLine ==
    pc = "done" => stdout = PrintBytes(sorted)

\* C6: the sequence merge_and_sort returns is strictly increasing in the
\* byte-lexicographic order of its station names and holds every station of the
\* partial tables exactly once.
C6_SortedStrictlyOnce ==
    pc = "sorted" =>
        /\ \A i \in 1..(Len(sorted) - 1) : LexLess(sorted[i][1], sorted[i + 1][1])
        /\ {sorted[i][1] : i \in DOMAIN sorted}
              = UNION {DOMAIN results[t].tab : t \in DOMAIN results}
        /\ \A i, j \in DOMAIN sorted : sorted[i][1] = sorted[j][1] => i = j

C6_Witness ==
    /\ pc = "sorted" /\ Len(sorted) = 2
    /\ \E s, t \in DOMAIN results :
          s # t /\ <<98>> \in DOMAIN results[s].tab /\ <<98>> \in DOMAIN results[t].tab

\* C7: every entry of every partial table and of the merged table has
\* count >= 1 and min <= max, and its min and max are values decoded from
\* records of its station.
C7_StatInvariants ==
    LET observed == UNION {workers[w].obs : w \in DOMAIN workers}
        good(k, s) == /\ s.count >= 1 /\ s.min <= s.max
                      /\ <<k, s.min>> \in observed /\ <<k, s.max>> \in observed
    IN  /\ \A w \in DOMAIN workers : \A k \in DOMAIN workers[w].tab :
              good(k, workers[w].tab[k])
        /\ \A k \in DOMAIN merged : good(k, merged[k])

C7_Witness ==
    /\ pc = "done"
    /\ \E k \in DOMAIN merged :
          /\ merged[k].min < merged[k].max
          /\ \E v, w \in DOMAIN workers :
                v # w /\ k \in DOMAIN workers[v].tab /\ k \in DOMAIN workers[w].tab

\* C8: Stat::merge is commutative and associative on the stats being merged,
\* and the merged table and its sorted items are the same for every order of
\* the partial tables and every order of the items within them.
C8_MergeOrderIrrelevant ==
    LET stats == UNION {{results[t].tab[k] : k \in DOMAIN results[t].tab} : t \in DOMAIN results}
    IN  pc = "sorted" =>
            /\ \A a, b \in stats : StatMerge(a, b) = StatMerge(b, a)
            /\ \A a, b, c \in stats :
                  StatMerge(StatMerge(a, b), c) = StatMerge(a, StatMerge(b, c))
            /\ \A p \in Permutations(DOMAIN results) :
                  /\ merged = MergeTables(EmptyTable, [i \in DOMAIN results |-> results[p[i]].tab])
                  /\ sorted = merge_and_sort([i \in DOMAIN results |-> results[p[i]].tab])

C8_Witness ==
    /\ pc = "sorted" /\ Len(results) = 3
    /\ \A t \in DOMAIN results : <<98>> \in DOMAIN results[t].tab
    /\ results[1].tab[<<98>>] # results[2].tab[<<98>>]
    /\ results[2].tab[<<98>>] = results[3].tab[<<98>>]
    /\ <<97, 98>> \in DOMAIN results[2].tab

\* C9: the merge, the sort and the report run only once every worker has
\* finished its range successfully; while the workers run, a step changes the
\* state of one running worker only, and never the input buffer or the ranges.
C9_BarrierAndIsolation ==
    /\ [](pc \in {"merge", "sorted", "print", "done"} =>
            \A w \in DOMAIN workers : workers[w].status = "ok")
    /\ [][pc = "par" =>
            /\ buf' = buf /\ chunks' = chunks
            /\ DOMAIN workers' = DOMAIN workers
            /\ \A w \in DOMAIN workers :
                  workers'[w].tab # workers[w].tab =>
                      /\ workers[w].status = "run"
                      /\ \A v \in DOMAIN workers \ {w} : workers'[v] = workers[v]]_vars

C9_Witness ==
    /\ pc = "merge" /\ Len(workers) = 3
    /\ \A w \in DOMAIN workers : workers[w].status = "ok" /\ workers[w].total >= 1

\* C10: on success the counts of the merged table add up to the number of
\* non-empty records of the buffer, the last one terminated or not, and to the
\* sum of the workers' totals.
C10_NoRecordLost ==
    pc = "done" =>
        /\ SumCounts(merged) = Cardinality({i \in DOMAIN Records(buf) : Records(buf)[i] # <<>>})
        /\ SumCounts(merged) = SumTotals(results)

====
